---- MODULE Spec2Model ----
(***************************************************************************)
(* Model of src/board.py: Section (a 3x3 store of nine slots) and Board    *)
(* (a Section whose nine slots are Sections, addressed as a 9x9 grid).     *)
(*                                                                         *)
(* Objects live in a heap: `boards` holds the _slots list of every Board   *)
(* (nine references to Sections), `sections` the _slots list of every      *)
(* Section (nine cell values).  Python lists are 0-based, TLA+ sequences   *)
(* 1-based: slot i of a Python list is element i + 1 here.                 *)
(***************************************************************************)
EXTENDS Integers, Sequences, FiniteSets, TLC

VARIABLES boards, sections, op, exc, ret, steps

vars == <<boards, sections, op, exc, ret, steps>>

----------------------------------------------------------------------------
(* Bounds of the exploration.                                              *)

MaxSteps == 2
MaxBoards == 2

\* Cells <<x, y>> the 9x9 operations are given, inside [0,8] x [0,8]: two
\* of a box, two of a row, two of a column ...
InCells == {<<0, 0>>, <<2, 1>>, <<3, 0>>, <<0, 3>>}
\* ... and outside: negative, 9 and beyond.
OutCells == {<<-1, 0>>, <<3, 9>>, <<10, -3>>}
\* Cells the reads are given.
ReadCells == {<<0, 0>>, <<0, 3>>, <<9, -3>>}
\* Rows and columns the line operations are given.
Lines == {0, 3, 9}
\* Sections <<section_x, section_y>> the section operations are given.
InSections == {<<0, 0>>, <<1, 0>>}
OutSections == {<<3, 0>>}
\* Slots <<x, y>> the 3x3 operations are given, inside [0,2] x [0,2] ...
InSlots == {<<0, 0>>, <<2, 1>>}
\* ... and outside.
OutSlots == {<<3, 0>>, <<-1, 0>>, <<0, 3>>, <<3, -1>>, <<-1, -3>>}
\* Digits the writes are given.
Digits == {5, 9}

----------------------------------------------------------------------------
(* Python values.                                                          *)

\* The value None of an empty slot; every other cell value is an int.
None == -1

Values == {None} \cup Digits

\* type(number) == int
TypeIsInt(number) == number # None

\* list[i] of a list of length n: is the index accepted ...
PyIndexOk(i, n) == -n <= i /\ i < n
\* ... and which 0-based slot it names (negative indices count from the end).
PyIndex(i, n) == IF i < 0 THEN i + n ELSE i

\* [None, ] * 9
EmptySlots == [i \in 1..9 |-> None]

----------------------------------------------------------------------------
(* Section.  An operation yields [exc, val]: the exception raised ("none"  *)
(* when it returns) and the value returned or the list as left behind.     *)

\* A get_at without the range test: Python's own indexing decides.
get_at_unchecked(slots, x, y) ==
    IF ~PyIndexOk(x + y * 3, Len(slots))
    THEN [exc |-> "IndexError", val |-> None]
    ELSE [exc |-> "none", val |-> slots[PyIndex(x + y * 3, Len(slots)) + 1]]

get_at(slots, x, y) ==
    IF ~(0 <= x /\ x <= 2 /\ 0 <= y /\ y <= 2)
    THEN [exc |-> "IndexError", val |-> None]
    ELSE [exc |-> "none", val |-> slots[x + y * 3 + 1]]

\* A set_at that stores at (y, x).
set_at_transposed(slots, item, x, y) ==
    IF ~PyIndexOk(y + x * 3, Len(slots))
    THEN [exc |-> "IndexError", val |-> slots]
    ELSE [exc |-> "none",
          val |-> [slots EXCEPT ![PyIndex(y + x * 3, Len(slots)) + 1] = item]]

set_at(slots, item, x, y) ==
    IF ~PyIndexOk(x + y * 3, Len(slots))
    THEN [exc |-> "IndexError", val |-> slots]
    ELSE [exc |-> "none",
          val |-> [slots EXCEPT ![PyIndex(x + y * 3, Len(slots)) + 1] = item]]

----------------------------------------------------------------------------
(* Board: construction.                                                    *)

\* Board.__init__ on a heap holding the Sections ss: set_sections creates
\* the Sections in the order x outer, y inner, and stores the k-th at
\* (x, y) = (k // 3, k % 3), which is slot x + y * 3.
NewBoardSlots(ss) ==
    [i \in 1..9 |-> Len(ss) + (((i - 1) % 3) * 3 + ((i - 1) \div 3)) + 1]

NewSections(ss) == ss \o [i \in 1..9 |-> EmptySlots]

----------------------------------------------------------------------------
(* Board: cell access.  bs and ss are the heap the operation runs on.      *)

\* A set_board_item that takes the Section at (y // 3, x // 3).
set_board_item_swapped(bs, ss, b, number, x, y) ==
    LET sec == get_at(bs[b], y \div 3, x \div 3) IN
    IF sec.exc # "none"
    THEN [exc |-> sec.exc, ss |-> ss]
    ELSE LET r == set_at(ss[sec.val], number, x % 3, y % 3) IN
         [exc |-> r.exc,
          ss |-> IF r.exc = "none" THEN [ss EXCEPT ![sec.val] = r.val] ELSE ss]

\* Yields [exc, ss]: the exception and the Sections after the call.
set_board_item(bs, ss, b, number, x, y) ==
    LET sec == get_at(bs[b], x \div 3, y \div 3) IN
    IF sec.exc # "none"
    THEN [exc |-> sec.exc, ss |-> ss]
    ELSE LET r == set_at(ss[sec.val], number, x % 3, y % 3) IN
         [exc |-> r.exc,
          ss |-> IF r.exc = "none" THEN [ss EXCEPT ![sec.val] = r.val] ELSE ss]

get_board_item(bs, ss, b, x, y) ==
    IF ~(0 <= x /\ x <= 8 /\ 0 <= y /\ y <= 8)
    THEN [exc |-> "IndexError", val |-> None]
    ELSE LET sec == get_at(bs[b], x \div 3, y \div 3) IN
         IF sec.exc # "none"
         THEN [exc |-> sec.exc, val |-> None]
         ELSE get_at(ss[sec.val], x % 3, y % 3)

contains_value(bs, ss, b, x, y) ==
    LET r == get_board_item(bs, ss, b, x, y) IN
    IF r.exc # "none" THEN [exc |-> r.exc, val |-> FALSE]
    ELSE [exc |-> "none", val |-> TypeIsInt(r.val)]

\* [self.get_board_item(x, y) for y in range(9)]
get_column(bs, ss, b, x) ==
    IF \E y \in 0..8 : get_board_item(bs, ss, b, x, y).exc # "none"
    THEN [exc |-> "IndexError", val |-> <<>>]
    ELSE [exc |-> "none",
          val |-> [i \in 1..9 |-> get_board_item(bs, ss, b, x, i - 1).val]]

\* [self.get_board_item(x, y) for x in range(9)]
get_row(bs, ss, b, y) ==
    IF \E x \in 0..8 : get_board_item(bs, ss, b, x, y).exc # "none"
    THEN [exc |-> "IndexError", val |-> <<>>]
    ELSE [exc |-> "none",
          val |-> [i \in 1..9 |-> get_board_item(bs, ss, b, i - 1, y).val]]

----------------------------------------------------------------------------
(* Board: validity.  Each scan keeps taken_numbers, nine flags, and stops  *)
(* at the first number whose flag is already set.                          *)

\* [0, ] * 9
NoneTaken == [i \in 1..9 |-> 0]

RECURSIVE ScanHorizontal(_, _, _, _, _, _)
\* The loop of is_line_valid_horizontal from column x on.
ScanHorizontal(bs, ss, b, y, x, taken_numbers) ==
    IF x = 9 THEN [exc |-> "none", val |-> TRUE]
    ELSE LET number == get_board_item(bs, ss, b, x, y) IN
         IF number.exc # "none" THEN [exc |-> number.exc, val |-> FALSE]
         ELSE IF number.val # None /\ TypeIsInt(number.val)
         THEN LET index == number.val - 1 IN
              IF taken_numbers[index + 1] # 0
              THEN [exc |-> "none", val |-> FALSE]
              ELSE ScanHorizontal(bs, ss, b, y, x + 1,
                                  [taken_numbers EXCEPT ![index + 1] = 1])
         ELSE ScanHorizontal(bs, ss, b, y, x + 1, taken_numbers)

is_line_valid_horizontal(bs, ss, b, y) ==
    ScanHorizontal(bs, ss, b, y, 0, NoneTaken)

RECURSIVE ScanVertical(_, _, _, _, _, _)
\* The loop of is_line_valid_vertical from row y on.
ScanVertical(bs, ss, b, x, y, taken_numbers) ==
    IF y = 9 THEN [exc |-> "none", val |-> TRUE]
    ELSE LET number == get_board_item(bs, ss, b, x, y) IN
         IF number.exc # "none" THEN [exc |-> number.exc, val |-> FALSE]
         ELSE IF number.val # None /\ TypeIsInt(number.val)
         THEN LET index == number.val - 1 IN
              IF taken_numbers[index + 1] # 0
              THEN [exc |-> "none", val |-> FALSE]
              ELSE ScanVertical(bs, ss, b, x, y + 1,
                                [taken_numbers EXCEPT ![index + 1] = 1])
         ELSE ScanVertical(bs, ss, b, x, y + 1, taken_numbers)

is_line_valid_vertical(bs, ss, b, x) ==
    ScanVertical(bs, ss, b, x, 0, NoneTaken)

RECURSIVE ScanSection_above_one(_, _, _)
\* A ScanSection that takes a number for repeated when its flag is above 1.
ScanSection_above_one(slots, k, taken_numbers) ==
    IF k = 9 THEN [exc |-> "none", val |-> TRUE]
    ELSE LET number == get_at(slots, k \div 3, k % 3) IN
         IF number.exc # "none" THEN [exc |-> number.exc, val |-> FALSE]
         ELSE IF number.val # None /\ TypeIsInt(number.val)
         THEN LET index == number.val - 1 IN
              IF taken_numbers[index + 1] > 1
              THEN [exc |-> "none", val |-> FALSE]
              ELSE ScanSection_above_one(slots, k + 1,
                                         [taken_numbers EXCEPT ![index + 1] = 1])
         ELSE ScanSection_above_one(slots, k + 1, taken_numbers)

RECURSIVE ScanSection(_, _, _)
\* The loops of is_section_valid over the slots of one Section, x outer and
\* y inner: step k looks at (x, y) = (k // 3, k % 3).
ScanSection(slots, k, taken_numbers) ==
    IF k = 9 THEN [exc |-> "none", val |-> TRUE]
    ELSE LET number == get_at(slots, k \div 3, k % 3) IN
         IF number.exc # "none" THEN [exc |-> number.exc, val |-> FALSE]
         ELSE IF number.val # None /\ TypeIsInt(number.val)
         THEN LET index == number.val - 1 IN
              IF taken_numbers[index + 1] > 0
              THEN [exc |-> "none", val |-> FALSE]
              ELSE ScanSection(slots, k + 1,
                               [taken_numbers EXCEPT ![index + 1] = 1])
         ELSE ScanSection(slots, k + 1, taken_numbers)

is_section_valid(bs, ss, b, section_x, section_y) ==
    LET section == get_at(bs[b], section_x, section_y) IN
    IF section.exc # "none" THEN [exc |-> section.exc, val |-> FALSE]
    ELSE ScanSection(ss[section.val], 0, NoneTaken)

RECURSIVE ValidSections(_, _, _, _)
\* The third loop of is_valid: the sections, x outer and y inner.
ValidSections(bs, ss, b, k) ==
    IF k = 9 THEN TRUE
    ELSE IF ~is_section_valid(bs, ss, b, k \div 3, k % 3).val THEN FALSE
    ELSE ValidSections(bs, ss, b, k + 1)

RECURSIVE ValidHorizontal_no_sections(_, _, _, _)
\* A ValidHorizontal that answers after the lines, without the sections.
ValidHorizontal_no_sections(bs, ss, b, y) ==
    IF y = 9 THEN TRUE
    ELSE IF ~is_line_valid_horizontal(bs, ss, b, y).val THEN FALSE
    ELSE ValidHorizontal_no_sections(bs, ss, b, y + 1)

RECURSIVE ValidHorizontal(_, _, _, _)
\* The second loop of is_valid: the horizontal lines, then the sections.
ValidHorizontal(bs, ss, b, y) ==
    IF y = 9 THEN ValidSections(bs, ss, b, 0)
    ELSE IF ~is_line_valid_horizontal(bs, ss, b, y).val THEN FALSE
    ELSE ValidHorizontal(bs, ss, b, y + 1)

RECURSIVE ValidVertical(_, _, _, _)
\* The first loop of is_valid: the vertical lines, then the rest.
ValidVertical(bs, ss, b, x) ==
    IF x = 9 THEN ValidHorizontal(bs, ss, b, 0)
    ELSE IF ~is_line_valid_vertical(bs, ss, b, x).val THEN FALSE
    ELSE ValidVertical(bs, ss, b, x + 1)

is_valid(bs, ss, b) == ValidVertical(bs, ss, b, 0)

RECURSIVE BlankInColumn(_, _, _, _, _)
\* The inner loop of is_solved: is there a blank spot at (x, y), ..., (x, 8)?
BlankInColumn(bs, ss, b, x, y) ==
    IF y = 9 THEN FALSE
    ELSE IF get_board_item(bs, ss, b, x, y).val = None THEN TRUE
    ELSE BlankInColumn(bs, ss, b, x, y + 1)

RECURSIVE ScanBlank_only(_, _, _, _)
\* A ScanBlank that answers True once no blank spot is found.
ScanBlank_only(bs, ss, b, x) ==
    IF x = 9 THEN TRUE
    ELSE IF BlankInColumn(bs, ss, b, x, 0) THEN FALSE
    ELSE ScanBlank_only(bs, ss, b, x + 1)

RECURSIVE ScanBlank(_, _, _, _)
\* The outer loop of is_solved from column x on; past the last column the
\* answer is is_valid().
ScanBlank(bs, ss, b, x) ==
    IF x = 9 THEN is_valid(bs, ss, b)
    ELSE IF BlankInColumn(bs, ss, b, x, 0) THEN FALSE
    ELSE ScanBlank(bs, ss, b, x + 1)

is_solved(bs, ss, b) == ScanBlank(bs, ss, b, 0)

----------------------------------------------------------------------------
(* Board: copying.                                                         *)

RECURSIVE CopyColumn(_, _, _, _, _, _)
\* The inner loop of get_copy: copies (x, y), ..., (x, 8) of board b into
\* new_board.  Yields the Sections afterwards.
CopyColumn(bs, ss, b, new_board, x, y) ==
    IF y = 9 THEN ss
    ELSE LET r == set_board_item(bs, ss, new_board,
                                 get_board_item(bs, ss, b, x, y).val, x, y)
         IN  IF r.exc # "none" THEN ss
             ELSE CopyColumn(bs, r.ss, b, new_board, x, y + 1)

RECURSIVE CopyCells(_, _, _, _, _)
\* The outer loop of get_copy from column x on.
CopyCells(bs, ss, b, new_board, x) ==
    IF x = 9 THEN ss
    ELSE CopyCells(bs, CopyColumn(bs, ss, b, new_board, x, 0), b, new_board, x + 1)

\* A get_copy whose new Board holds the Sections of the original.
get_copy_shared(bs, ss, b) ==
    [bs |-> Append(bs, bs[b]), ss |-> NewSections(ss)]

\* A get_copy that copies from the new Board into the original.
get_copy_reversed(bs, ss, b) ==
    LET nbs == Append(bs, NewBoardSlots(ss)) IN
    [bs |-> nbs, ss |-> CopyCells(nbs, NewSections(ss), Len(nbs), b, 0)]

\* Yields the heap [bs, ss] after the call; the new Board is the last of bs.
get_copy(bs, ss, b) ==
    LET nbs == Append(bs, NewBoardSlots(ss)) IN
    [bs |-> nbs, ss |-> CopyCells(nbs, NewSections(ss), b, Len(nbs), 0)]

----------------------------------------------------------------------------
(* Board: loading.  A file is the sequence of its lines (splitlines), a    *)
(* line the sequence of its characters.                                    *)

DigitChars == <<"0", "1", "2", "3", "4", "5", "6", "7", "8", "9">>

\* int(char) of one character.
int(char) ==
    IF \E d \in 0..9 : DigitChars[d + 1] = char
    THEN [exc |-> "none", val |-> CHOOSE d \in 0..9 : DigitChars[d + 1] = char]
    ELSE [exc |-> "ValueError", val |-> None]

RECURSIVE LoadLine(_, _, _, _, _, _)
\* The inner loop of load_board over the characters of line y from x on.
LoadLine(bs, ss, b, line, y, x) ==
    IF x >= Len(line) THEN [exc |-> "none", ss |-> ss]
    ELSE IF x >= 9 THEN [exc |-> "none", ss |-> ss]
    ELSE IF line[x + 1] # " "
    THEN LET n == int(line[x + 1]) IN
         IF n.exc # "none" THEN [exc |-> n.exc, ss |-> ss]
         ELSE LET r == set_board_item(bs, ss, b, n.val, x, y) IN
              IF r.exc # "none" THEN r
              ELSE LoadLine(bs, r.ss, b, line, y, x + 1)
    ELSE LoadLine(bs, ss, b, line, y, x + 1)

RECURSIVE LoadLines(_, _, _, _, _)
\* The outer loop of load_board over the lines from y on.
LoadLines(bs, ss, b, board_raw, y) ==
    IF y >= Len(board_raw) THEN [exc |-> "none", ss |-> ss]
    ELSE LET r == LoadLine(bs, ss, b, board_raw[y + 1], y, 0) IN
         IF r.exc # "none" THEN r
         ELSE LoadLines(bs, r.ss, b, board_raw, y + 1)

\* Yields [exc, ss]; an exception leaves the cells written before it.
load_board(bs, ss, b, board_raw) == LoadLines(bs, ss, b, board_raw, 0)

----------------------------------------------------------------------------
(* The files the loader is given.                                          *)

\* A line from digits, 0 standing for a space.
Line(ds) == [i \in 1..Len(ds) |-> IF ds[i] = 0 THEN " " ELSE DigitChars[ds[i] + 1]]

\* The digit of a completed puzzle at row r, column c (from 0): every row,
\* column and box is a permutation of 1..9.
SolvedDigit(r, c) == ((r * 3 + (r \div 3) + c) % 9) + 1

\* A completed puzzle, with a tenth character on every row and a tenth row
\* of spaces.
SolvedFile ==
    [r \in 1..10 |->
        IF r = 10 THEN Line(<<0, 0, 0>>)
        ELSE [c \in 1..10 |->
                 IF c = 10 THEN "7" ELSE DigitChars[SolvedDigit(r - 1, c - 1) + 1]]]

\* Ten rows, the tenth holding a digit.
TallFile ==
    <<Line(<<5, 0, 9>>), Line(<<>>), Line(<<>>), Line(<<>>), Line(<<>>),
      Line(<<>>), Line(<<>>), Line(<<>>), Line(<<0, 9>>), Line(<<0, 5>>)>>

\* Short rows and a blank one; 5 twice in the first column, in different boxes.
ShortFile ==
    <<Line(<<5>>), Line(<<0, 0, 0, 0, 0, 0, 0, 0, 0>>), Line(<<>>),
      Line(<<5, 0, 0, 0, 0, 0, 0, 0, 1>>)>>

Files == <<SolvedFile, TallFile, ShortFile>>

----------------------------------------------------------------------------
(* The state machine.  op names the call made last, exc is the exception   *)
(* it raised ("none" when it returned), ret what it returned; steps counts *)
(* the calls that may write.                                               *)

BoardIds == 1..Len(boards)

\* board = Board()
Init ==
    /\ boards = <<NewBoardSlots(<<>>)>>
    /\ sections = NewSections(<<>>)
    /\ op = "Board"
    /\ exc = "none"
    /\ ret = None
    /\ steps = 0

\* A call that reads: its outcome r is recorded, the heap is left alone.
Query(name, r) ==
    /\ op' = name
    /\ exc' = r.exc
    /\ ret' = r.val
    /\ UNCHANGED <<boards, sections, steps>>

\* boards[b].set_board_item(number, x, y)
SetBoardItemAt(b, number, x, y) ==
    LET r == set_board_item(boards, sections, b, number, x, y) IN
    /\ steps < MaxSteps
    /\ steps' = steps + 1
    /\ op' = "set_board_item"
    /\ exc' = r.exc
    /\ ret' = None
    /\ sections' = r.ss
    /\ UNCHANGED boards

SetBoardItem ==
    \E b \in BoardIds, number \in Values, c \in InCells \cup OutCells :
        SetBoardItemAt(b, number, c[1], c[2])

GetBoardItem ==
    \E b \in BoardIds, c \in ReadCells :
        Query("get_board_item", get_board_item(boards, sections, b, c[1], c[2]))

ContainsValue ==
    \E b \in BoardIds, c \in ReadCells :
        Query("contains_value", contains_value(boards, sections, b, c[1], c[2]))

GetColumn ==
    \E b \in BoardIds, x \in Lines :
        Query("get_column", get_column(boards, sections, b, x))

GetRow ==
    \E b \in BoardIds, y \in Lines :
        Query("get_row", get_row(boards, sections, b, y))

IsLineValidHorizontal ==
    \E b \in BoardIds, y \in Lines :
        Query("is_line_valid_horizontal",
              is_line_valid_horizontal(boards, sections, b, y))

IsLineValidVertical ==
    \E b \in BoardIds, x \in Lines :
        Query("is_line_valid_vertical",
              is_line_valid_vertical(boards, sections, b, x))

IsSectionValid ==
    \E b \in BoardIds, s \in InSections \cup OutSections :
        Query("is_section_valid",
              is_section_valid(boards, sections, b, s[1], s[2]))

IsValid ==
    \E b \in BoardIds :
        Query("is_valid", [exc |-> "none", val |-> is_valid(boards, sections, b)])

IsSolved ==
    \E b \in BoardIds :
        Query("is_solved", [exc |-> "none", val |-> is_solved(boards, sections, b)])

\* The Section at s of board b: boards[b].get_at(s[1], s[2])
SectionOf(b, s) == get_at(boards[b], s[1], s[2]).val

\* section.get_at(x, y) on Section number section of the heap.
SectionGetAt ==
    \E b \in BoardIds, s \in InSections, c \in InSlots \cup OutSlots :
        Query("get_at", get_at(sections[SectionOf(b, s)], c[1], c[2]))

\* section.set_at(item, x, y) on Section number section of the heap.
SectionSetAtOf(section, item, x, y) ==
    LET r == set_at(sections[section], item, x, y) IN
    /\ steps < MaxSteps
    /\ steps' = steps + 1
    /\ op' = "set_at"
    /\ exc' = r.exc
    /\ ret' = None
    /\ sections' = [sections EXCEPT ![section] = r.val]
    /\ UNCHANGED boards

SectionSetAt ==
    \E b \in BoardIds, s \in InSections, item \in Values,
       c \in InSlots \cup OutSlots :
        SectionSetAtOf(SectionOf(b, s), item, c[1], c[2])

\* new_board = boards[b].get_copy()
GetCopyOf(b) ==
    LET h == get_copy(boards, sections, b) IN
    /\ steps < MaxSteps
    /\ Len(boards) < MaxBoards
    /\ steps' = steps + 1
    /\ op' = "get_copy"
    /\ exc' = "none"
    /\ ret' = Len(h.bs)
    /\ boards' = h.bs
    /\ sections' = h.ss

GetCopy == \E b \in BoardIds : GetCopyOf(b)

\* boards[b].load_board(filename), the file holding board_raw.
LoadBoardFrom(b, board_raw) ==
    LET r == load_board(boards, sections, b, board_raw) IN
    /\ steps < MaxSteps
    /\ steps' = steps + 1
    /\ op' = "load_board"
    /\ exc' = r.exc
    /\ ret' = None
    /\ sections' = r.ss
    /\ UNCHANGED boards

LoadBoard ==
    \E b \in BoardIds, f \in 1..Len(Files) : LoadBoardFrom(b, Files[f])

Next ==
    \/ SetBoardItem
    \/ LoadBoard
    \/ GetCopy
    \/ GetBoardItem
    \/ ContainsValue
    \/ GetColumn
    \/ GetRow

\* Boards written, loaded and copied, and their cells read back.
Spec == Init /\ [][Next]_vars

NextReads ==
    \/ SetBoardItem
    \/ GetCopy
    \/ GetBoardItem
    \/ ContainsValue
    \/ GetColumn
    \/ GetRow
    \/ IsLineValidHorizontal
    \/ IsLineValidVertical
    \/ IsSectionValid
    \/ IsValid
    \/ IsSolved

\* Boards written and copied, and every operation that reads them.
SpecReads == Init /\ [][NextReads]_vars

NextValid ==
    \/ SetBoardItem
    \/ LoadBoard
    \/ IsLineValidHorizontal
    \/ IsLineValidVertical
    \/ IsSectionValid
    \/ IsValid
    \/ IsSolved

\* One Board, written and loaded, and its validity checks.
SpecValid == Init /\ [][NextValid]_vars

NextSection ==
    \/ SectionGetAt
    \/ SectionSetAt
    \/ GetBoardItem

\* The Sections of a Board through their own 3x3 operations.
SpecSection == Init /\ [][NextSection]_vars

----------------------------------------------------------------------------
(* The grid as the specification sees it: 81 cells at (x, y), each Empty   *)
(* (None) or a digit.                                                      *)

AllCells == (0..8) \X (0..8)

\* Cells around the grid: x or y outside [0,8].
Outside == ((-3..11) \X (-3..11)) \ AllCells

\* The cell (x, y) of board b in the heap bs, ss: slot (x mod 3, y mod 3) of
\* the SubGrid at (x / 3, y / 3).
CellOf(bs, ss, b, x, y) ==
    ss[bs[b][(x \div 3) + (y \div 3) * 3 + 1]][(x % 3) + (y % 3) * 3 + 1]

Cell(b, x, y) == CellOf(boards, sections, b, x, y)

RowCells(y) == {<<x, y>> : x \in 0..8}
ColumnCells(x) == {<<x, y>> : y \in 0..8}
BoxCells(mx, my) == {<<mx * 3 + i, my * 3 + j>> : i \in 0..2, j \in 0..2}

\* Some digit 1..9 occurs in two different cells of unit.
HasDuplicate(b, unit) ==
    \E c \in unit, d \in unit :
        /\ c # d
        /\ Cell(b, c[1], c[2]) \in 1..9
        /\ Cell(b, c[1], c[2]) = Cell(b, d[1], d[2])

\* The calls that read, and the states a call that may write has just left.
Reads == {"get_board_item", "contains_value", "get_column", "get_row",
          "is_line_valid_horizontal", "is_line_valid_vertical",
          "is_section_valid", "is_valid", "is_solved", "get_at"}
AfterWrite == op \notin Reads

----------------------------------------------------------------------------
(* C1.  After set_cell(v, x, y) with (x, y) in [0,8] x [0,8], get_cell(x, y) *)
(* returns v and each of the other 80 cells of the grid holds the value it  *)
(* held before the write.                                                   *)
C1_SetThenGet ==
    [][\A b \in BoardIds, v \in Values, c \in InCells :
          SetBoardItemAt(b, v, c[1], c[2]) =>
              /\ exc' = "none"
              /\ get_board_item(boards', sections', b, c[1], c[2])
                     = [exc |-> "none", val |-> v]
              /\ \A d \in AllCells \ {c} :
                     CellOf(boards', sections', b, d[1], d[2]) = Cell(b, d[1], d[2])
      ]_vars

\* A write of a digit has taken effect on a grid that holds another digit.
C1_Witness ==
    /\ op = "set_board_item"
    /\ exc = "none"
    /\ \E b \in BoardIds, c \in InCells, d \in AllCells :
          /\ c # d
          /\ get_board_item(boards, sections, b, c[1], c[2]).val \in Digits
          /\ Cell(b, d[1], d[2]) # None

(* C2.  With x or y outside [0,8], get_cell(x, y) and set_cell(v, x, y)     *)
(* raise the out-of-range error (IndexError), and the failed set_cell leaves *)
(* every cell unchanged.                                                    *)
C2_OutOfRange ==
    /\ [](\A b \in BoardIds, c \in Outside :
             get_board_item(boards, sections, b, c[1], c[2]).exc = "IndexError")
    /\ [][\A b \in BoardIds, v \in Values, c \in OutCells :
             SetBoardItemAt(b, v, c[1], c[2]) =>
                 /\ exc' = "IndexError"
                 /\ boards' = boards
                 /\ sections' = sections
         ]_vars

\* An out-of-range write has failed on a grid that holds a digit.
C2_Witness ==
    /\ op = "set_board_item"
    /\ exc = "IndexError"
    /\ \E b \in BoardIds, d \in AllCells : Cell(b, d[1], d[2]) # None

(* C3.  is_row_valid(y), is_column_valid(x) and is_box_valid(mx, my) return *)
(* false exactly when some digit 1..9 occurs in two different cells of the  *)
(* row, column or box, and true otherwise, an all-empty unit included.      *)
C3_UnitValidity ==
    \A b \in BoardIds :
        /\ \A y \in 0..8 :
               is_line_valid_horizontal(boards, sections, b, y)
                   = [exc |-> "none", val |-> ~HasDuplicate(b, RowCells(y))]
        /\ \A x \in 0..8 :
               is_line_valid_vertical(boards, sections, b, x)
                   = [exc |-> "none", val |-> ~HasDuplicate(b, ColumnCells(x))]
        /\ \A mx \in 0..2, my \in 0..2 :
               is_section_valid(boards, sections, b, mx, my)
                   = [exc |-> "none", val |-> ~HasDuplicate(b, BoxCells(mx, my))]

\* A box check has returned false on a grid whose only repeated digit is in
\* one box, on different rows and columns, next to an all-empty box.
C3_Witness ==
    /\ op = "is_section_valid"
    /\ exc = "none"
    /\ ret = FALSE
    /\ HasDuplicate(1, BoxCells(0, 0))
    /\ \A y \in 0..8 : ~HasDuplicate(1, RowCells(y))
    /\ \A x \in 0..8 : ~HasDuplicate(1, ColumnCells(x))
    /\ \A c \in BoxCells(1, 0) : Cell(1, c[1], c[2]) = None
    /\ is_section_valid(boards, sections, 1, 1, 0).val

\* 5 at (0,0) and at (0,3), every other cell empty.
ColumnExample(b) ==
    \A c \in AllCells :
        Cell(b, c[1], c[2]) = IF c \in {<<0, 0>>, <<0, 3>>} THEN 5 ELSE None

(* C4.  is_valid() is true if and only if all 9 row checks, all 9 column    *)
(* checks and all 9 box checks are true; with 5 at (0,0) and (0,3) the      *)
(* column check of column 0 is false, the box check of box (0,0) true and   *)
(* is_valid() false.                                                        *)
C4_ValidIsConjunction ==
    \A b \in BoardIds :
        /\ is_valid(boards, sections, b)
               = /\ \A y \in 0..8 : is_line_valid_horizontal(boards, sections, b, y).val
                 /\ \A x \in 0..8 : is_line_valid_vertical(boards, sections, b, x).val
                 /\ \A mx \in 0..2, my \in 0..2 :
                        is_section_valid(boards, sections, b, mx, my).val
        /\ ColumnExample(b) =>
               /\ ~is_line_valid_vertical(boards, sections, b, 0).val
               /\ is_section_valid(boards, sections, b, 0, 0).val
               /\ ~is_valid(boards, sections, b)

\* is_valid() has returned false on the grid with 5 at (0,0) and (0,3).
C4_Witness ==
    /\ op = "is_valid"
    /\ ret = FALSE
    /\ ColumnExample(1)

(* C5.  is_solved() is true if and only if none of the 81 cells is Empty    *)
(* and is_valid() is true; the all-empty grid is valid and not solved.      *)
C5_Solved ==
    \A b \in BoardIds :
        /\ is_solved(boards, sections, b)
               = /\ \A c \in AllCells : Cell(b, c[1], c[2]) # None
                 /\ is_valid(boards, sections, b)
        /\ (\A c \in AllCells : Cell(b, c[1], c[2]) = None) =>
               /\ is_valid(boards, sections, b)
               /\ ~is_solved(boards, sections, b)

\* is_solved() has returned true: the completed puzzle is loaded.
C5_Witness ==
    /\ op = "is_solved"
    /\ ret = TRUE
    /\ \A c \in AllCells : Cell(1, c[1], c[2]) = SolvedDigit(c[2], c[1])

(* C6.  deep_copy() of a grid yields a grid with the same value at each of  *)
(* the 81 coordinates, and a set_cell on one grid leaves every cell of      *)
(* every other grid unchanged.                                              *)
C6_DeepCopy ==
    [][/\ \A b \in BoardIds :
              GetCopyOf(b) =>
                  /\ ret' = Len(boards) + 1
                  /\ \A c \in AllCells :
                         CellOf(boards', sections', ret', c[1], c[2])
                             = Cell(b, c[1], c[2])
       /\ \A b \in BoardIds, v \in Values, c \in InCells \cup OutCells :
              SetBoardItemAt(b, v, c[1], c[2]) =>
                  \A other \in BoardIds \ {b}, d \in AllCells :
                      CellOf(boards', sections', other, d[1], d[2])
                          = Cell(other, d[1], d[2])
      ]_vars

\* A grid and its copy, one of them written since: they differ.
C6_Witness ==
    /\ Len(boards) = 2
    /\ op = "set_board_item"
    /\ exc = "none"
    /\ \E c \in AllCells : Cell(1, c[1], c[2]) # Cell(2, c[1], c[2])

(* C7.  SubGrid set(value, lx, ly) with lx or ly outside [0,2] raises the   *)
(* out-of-range error (IndexError) and modifies none of the 9 slots.        *)
C7_SectionSetOutOfRange ==
    [][\A section \in 1..Len(sections), item \in Values, c \in OutSlots :
          SectionSetAtOf(section, item, c[1], c[2]) =>
              /\ exc' = "IndexError"
              /\ sections' = sections
      ]_vars

\* The first 9 characters of the first 9 rows of a file.
Crop(board_raw) ==
    [r \in 1..(IF Len(board_raw) < 9 THEN Len(board_raw) ELSE 9) |->
        SubSeq(board_raw[r], 1,
               IF Len(board_raw[r]) < 9 THEN Len(board_raw[r]) ELSE 9)]

(* C8.  Loading a file completes without error and leaves the grid that     *)
(* loading the first 9 characters of its first 9 rows leaves: characters    *)
(* beyond the 9th column and rows beyond the 9th are ignored.               *)
C8_LoadIgnoresExtra ==
    [][\A b \in BoardIds, f \in 1..Len(Files) :
          LoadBoardFrom(b, Files[f]) =>
              /\ exc' = "none"
              /\ sections' = load_board(boards, sections, b, Crop(Files[f])).ss
      ]_vars

(* C9.  is_valid, is_solved, is_row_valid, is_column_valid, is_box_valid,   *)
(* is_occupied, get_cell, get_row, get_column and deep_copy leave all 81    *)
(* cells of every existing grid unchanged.                                  *)
C9_ReadsChangeNothing ==
    [][op' \in Reads \cup {"get_copy"} =>
          \A b \in BoardIds :
              /\ boards'[b] = boards[b]
              /\ \A i \in 1..9 : sections'[boards[b][i]] = sections[boards[b][i]]
      ]_vars

\* A grid that holds a digit has been copied.
C9_Witness ==
    /\ op = "get_copy"
    /\ Len(boards) = 2
    /\ \E c \in AllCells : Cell(1, c[1], c[2]) # None
    /\ \A c \in AllCells : Cell(1, c[1], c[2]) = Cell(2, c[1], c[2])

(* C10.  A set_cell into a cell that is Empty at that moment never turns    *)
(* is_valid() from false to true: under filling invalidity is permanent,    *)
(* and is_valid() becomes true again only by a write to an occupied cell.   *)
C10_InvalidStaysInvalid ==
    [][\A b \in BoardIds, v \in Values, c \in InCells :
          ( /\ Cell(b, c[1], c[2]) = None
            /\ SetBoardItemAt(b, v, c[1], c[2])
            /\ ~is_valid(boards, sections, b) )
          => ~is_valid(boards', sections', b)
      ]_vars

\* The file with 5 twice in column 0 is loaded, then 9 is put into the empty
\* cell (2,1): the grid is still invalid.
C10_Witness ==
    /\ op = "set_board_item"
    /\ exc = "none"
    /\ Cell(1, 0, 0) = 5
    /\ Cell(1, 0, 3) = 5
    /\ Cell(1, 8, 3) = 1
    /\ Cell(1, 2, 1) = 9
    /\ ~is_valid(boards, sections, 1)

====
